---- MODULE Spec2Model ----
(***************************************************************************)
(* Model of examples/console.rs: the OGN comment decoder                   *)
(* (parse_ogn_comment and the two TryFrom<u8> tables) and the APRS-IS      *)
(* session (main / read_messages).                                         *)
(*                                                                         *)
(* Strings are sequences of characters; a character is a one-element       *)
(* string, except the two non-ASCII characters U2 and U3, which stand for  *)
(* a 2-byte and a 3-byte UTF-8 character (Rust slices strings by bytes).   *)
(***************************************************************************)
EXTENDS Integers, Sequences, FiniteSets, TLC

VARIABLES
    comment,    \* decoder run: the comment handed to parse_ogn_comment
    decoded,    \* decoder run: what parse_ogn_comment did with it
    stamp,      \* timestamp run: the Option<Timestamp> to render
    rendered,   \* timestamp run: the string it was rendered as
    state,      \* session: Connecting / Authenticating / Streaming / Closed / Aborted
    result,     \* session: what main returned ("none" while running)
    cause,      \* session: why the session ended
    sent,       \* session: the writes made to the feed socket, in order
    hist,       \* session: the lines read so far, in order
    dec,        \* session: per line read, the result of parse_ogn_comment
    class,      \* session: per line read, the branch of the loop that handled it
    calls,      \* session: per line read, the functions the pass called on it
    frag,       \* session: the last line read had no newline (the stream ended in it)
    pending,    \* session: bytes given to the async stdout writer, not yet flushed
    out         \* session: what has reached the console, in order

vars == <<comment, decoded, stamp, rendered, state, result, cause, sent, hist, dec, class,
          calls, frag, pending, out>>

decVars == <<comment, decoded>>
tsVars == <<stamp, rendered>>
sesVars == <<state, result, cause, sent, hist, dec, class, calls, frag, pending, out>>

----------------------------------------------------------------------------
(* Bounds *)

MaxAddrLen == 2     \* longest address tail drawn for the decoder runs
MaxPre == 1         \* most tokens drawn in front of the id token
MaxLines == 2       \* most lines a session run reads
MaxTsField == 12    \* timestamp fields 0..MaxTsField are all tried

----------------------------------------------------------------------------
(* Characters and byte offsets *)

U2 == "U+00E9"      \* a character that takes 2 bytes in UTF-8
U3 == "U+20AC"      \* a character that takes 3 bytes in UTF-8

Width(c) == IF c = U2 THEN 2 ELSE IF c = U3 THEN 3 ELSE 1

RECURSIVE ByteLen(_)
ByteLen(s) == IF s = <<>> THEN 0 ELSE Width(Head(s)) + ByteLen(Tail(s))

\* the number of characters that end exactly at byte offset k, or -1 when k
\* is past the end or falls inside a character
CharsAt(s, k) ==
    LET I == {i \in 0..Len(s) : ByteLen(SubSeq(s, 1, i)) = k}
    IN IF I = {} THEN -1 ELSE CHOOSE i \in I : TRUE

SliceOk(s, a, b) == a <= b /\ CharsAt(s, a) >= 0 /\ CharsAt(s, b) >= 0

\* &s[a..b], defined when SliceOk(s, a, b); Rust panics otherwise
Slice(s, a, b) == SubSeq(s, CharsAt(s, a) + 1, CharsAt(s, b))

\* &s[a..]
SliceFromOk(s, a) == CharsAt(s, a) >= 0
SliceFrom(s, a) == SubSeq(s, CharsAt(s, a) + 1, Len(s))

StartsWith(s, p) == Len(s) >= Len(p) /\ SubSeq(s, 1, Len(p)) = p

\* str::split(" "): every single space separates, empty tokens are kept
RECURSIVE Split(_)
Split(s) ==
    IF \A i \in 1..Len(s) : s[i] # " " THEN <<s>>
    ELSE LET k == CHOOSE i \in 1..Len(s) : s[i] = " " /\ \A j \in 1..(i-1) : s[j] # " "
         IN <<SubSeq(s, 1, k - 1)>> \o Split(SubSeq(s, k + 1, Len(s)))

\* the last id-prefixed token is taken instead of the first
RECURSIVE SkipToLastId(_)
SkipToLastId(toks) ==
    IF toks = <<>> THEN <<>>
    ELSE LET rest == SkipToLastId(Tail(toks))
         IN IF rest # <<>> THEN rest
            ELSE IF StartsWith(Head(toks), <<"i", "d">>) THEN toks
            ELSE <<>>

\* .skip_while(|x| !x.starts_with("id"))
RECURSIVE SkipWhileNotId(_)
SkipWhileNotId(toks) ==
    IF toks = <<>> THEN <<>>
    ELSE IF StartsWith(Head(toks), <<"i", "d">>) THEN toks
    ELSE SkipWhileNotId(Tail(toks))

----------------------------------------------------------------------------
(* u8 arithmetic *)

RECURSIVE BitAnd(_, _)
BitAnd(a, b) ==
    IF a = 0 \/ b = 0 THEN 0
    ELSE (a % 2) * (b % 2) + 2 * BitAnd(a \div 2, b \div 2)

Shr(a, k) == a \div (2 ^ k)

HexDigits == <<"0", "1", "2", "3", "4", "5", "6", "7", "8", "9",
               "A", "B", "C", "D", "E", "F">>
HexLower == <<"0", "1", "2", "3", "4", "5", "6", "7", "8", "9",
              "a", "b", "c", "d", "e", "f">>

IsHexDigit(c) == \E i \in 1..16 : HexDigits[i] = c \/ HexLower[i] = c
DigitVal(c) == (CHOOSE i \in 1..16 : HexDigits[i] = c \/ HexLower[i] = c) - 1

\* u8::from_str_radix(src, 16): an optional leading "+", then one or more hex
\* digits of either case; -1 stands for Err.  ("-" is only a sign for the
\* signed types.)
from_str_radix(src) ==
    LET digits == IF src # <<>> /\ Head(src) = "+" THEN Tail(src) ELSE src
    IN IF digits = <<>> THEN -1
       ELSE IF \E i \in 1..Len(digits) : ~IsHexDigit(digits[i]) THEN -1
       ELSE LET v == IF Len(digits) = 1 THEN DigitVal(digits[1])
                     ELSE 16 * DigitVal(digits[1]) + DigitVal(digits[2])
            IN IF v > 255 THEN -1 ELSE v

----------------------------------------------------------------------------
(* The two TryFrom<u8> tables; "Err" stands for Err(()) *)

AircraftTypeNoAlias(val) ==
    CASE val = 0 -> "Unknown"
      [] val = 1 -> "Glider"
      [] val = 2 -> "TowPlane"
      [] val = 3 -> "Helicopter"
      [] val = 4 -> "Skydiver"
      [] val = 5 -> "DropPlane"
      [] val = 6 -> "Hangglider"
      [] val = 7 -> "Paraglider"
      [] val = 8 -> "PoweredAircraft"
      [] val = 9 -> "JetAircraft"
      [] val = 11 -> "Balloon"
      [] val = 12 -> "Airship"
      [] val = 13 -> "Uav"
      [] val = 14 -> "Static"
      [] OTHER -> "Err"

AircraftTypeTryFrom(val) ==
    CASE val = 0 -> "Unknown"
      [] val = 1 -> "Glider"
      [] val = 2 -> "TowPlane"
      [] val = 3 -> "Helicopter"
      [] val = 4 -> "Skydiver"
      [] val = 5 -> "DropPlane"
      [] val = 6 -> "Hangglider"
      [] val = 7 -> "Paraglider"
      [] val = 8 -> "PoweredAircraft"
      [] val = 9 -> "JetAircraft"
      [] val = 10 -> "Unknown"
      [] val = 11 -> "Balloon"
      [] val = 12 -> "Airship"
      [] val = 13 -> "Uav"
      [] val = 14 -> "Static"
      [] val = 15 -> "Unknown"
      [] OTHER -> "Err"

AddressTypeTryFrom(val) ==
    CASE val = 0 -> "Random"
      [] val = 1 -> "Icao"
      [] val = 2 -> "Flarm"
      [] val = 3 -> "Ogn"
      [] OTHER -> "Err"

\* impl fmt::Display for AddressType
AddressTypeDisplay(t) ==
    CASE t = "Random" -> "Random"
      [] t = "Icao" -> "ICAO"
      [] t = "Flarm" -> "FLARM"
      [] t = "Ogn" -> "OGN"
      [] OTHER -> "?"

----------------------------------------------------------------------------
(* parse_ogn_comment *)

\* Option<OgnComment>, with the panic of the call as a third outcome and
\* NotRun for "not called"
Outcome(tag) ==
    [tag |-> tag, address |-> <<>>, stealth_mode |-> FALSE, no_tracking |-> FALSE,
     aircraft_type |-> "-", address_type |-> "-"]

NotRun == Outcome("NotRun")
NoneVal == Outcome("None")
Panic == Outcome("Panic")

\* bit 5 dropped from the aircraft-type mask
TypeMaskNarrow == 60 - 32

\* the mask of the aircraft-type field, 0b00111100
TypeMask == 60
\* the address is read as a number: its leading zeros are lost
RECURSIVE StripZeros(_)
StripZeros(a) == IF a # <<>> /\ Head(a) = "0" THEN StripZeros(Tail(a)) ELSE a
OgnCommentOfStripZeros(id, flags) ==
    LET at == AircraftTypeTryFrom(Shr(BitAnd(flags, TypeMask), 2))
        ad == AddressTypeTryFrom(BitAnd(flags, 3))
    IN IF ~SliceFromOk(id, 4) THEN Panic
       ELSE [tag |-> "Some",
             address |-> StripZeros(SliceFrom(id, 4)),
             stealth_mode |-> BitAnd(flags, 128) > 0,
             no_tracking |-> BitAnd(flags, 64) > 0,
             aircraft_type |-> at,
             address_type |-> ad]

OgnCommentOf(id, flags) ==
    LET at == AircraftTypeTryFrom(Shr(BitAnd(flags, TypeMask), 2))
        ad == AddressTypeTryFrom(BitAnd(flags, 3))
    IN IF ~SliceFromOk(id, 4) THEN Panic
       ELSE IF at = "Err" \/ ad = "Err" THEN Panic      \* .unwrap()
       ELSE [tag |-> "Some",
             address |-> SliceFrom(id, 4),
             stealth_mode |-> BitAnd(flags, 128) > 0,
             no_tracking |-> BitAnd(flags, 64) > 0,
             aircraft_type |-> at,
             address_type |-> ad]

parse_ogn_comment(c) ==
    LET iter == SkipWhileNotId(Split(c))
    IN IF iter = <<>> THEN NoneVal                       \* iter.next()?
       ELSE LET id == Head(iter)
            IN IF ~SliceOk(id, 2, 4) THEN Panic          \* &id[2..4]
               ELSE LET flags == from_str_radix(Slice(id, 2, 4))
                    IN IF flags = -1 THEN NoneVal        \* .ok()?
                       ELSE OgnCommentOf(id, flags)

----------------------------------------------------------------------------
(* Rendering *)

RECURSIVE Dec(_)
Dec(n) == IF n < 10 THEN <<HexDigits[n + 1]>> ELSE Dec(n \div 10) \o <<HexDigits[(n % 10) + 1]>>

\* {} where {:02} was meant: no padding
PadNone(n) == Dec(n)

\* {:02}
Pad2(n) == IF n < 10 THEN <<"0">> \o Dec(n) ELSE Dec(n)

\* Option<Timestamp>: tag None / DDHHMM / HHMMSS / Unsupported
Ts(tag, a, b, c, raw) == [tag |-> tag, a |-> a, b |-> b, c |-> c, raw |-> raw]
NoTs == Ts("None", 0, 0, 0, <<>>)

timestamp_to_str(ts) ==
    CASE ts.tag = "DDHHMM" -> Pad2(ts.a) \o <<"/">> \o Pad2(ts.b) \o <<":">> \o Pad2(ts.c)
      [] ts.tag = "HHMMSS" ->
            <<"T", "o", "d", "a", "y", "/">> \o Pad2(ts.a) \o <<":">> \o Pad2(ts.b)
                \o <<":">> \o Pad2(ts.c)
      [] OTHER -> ts.raw

\* nothing rendered yet
NotRendered == <<"NotRendered">>

\* pos.timestamp.map(timestamp_to_str).unwrap_or_else(|| "?".to_string())
TimestampField(ts) == IF ts.tag = "None" THEN <<"?">> ELSE timestamp_to_str(ts)

\* {:.6} of a coordinate, the coordinate given in millionths of a degree
RECURSIVE PadLeft(_, _)
PadLeft(s, w) == IF Len(s) >= w THEN s ELSE PadLeft(<<"0">> \o s, w)
Fixed6(v) ==
    LET m == IF v < 0 THEN 0 - v ELSE v
    IN (IF v < 0 THEN <<"-">> ELSE <<>>) \o Dec(m \div 1000000) \o <<".">>
           \o PadLeft(Dec(m % 1000000), 6)

\* {:?} of the Vec<String> of the path's calls
RECURSIVE DebugItems(_)
DebugItems(v) ==
    IF v = <<>> THEN <<>>
    ELSE <<"\"">> \o Head(v) \o <<"\"">>
         \o (IF Len(v) > 1 THEN <<",", " ">> ELSE <<>>) \o DebugItems(Tail(v))
DebugVec(v) == <<"[">> \o DebugItems(v) \o <<"]">>

----------------------------------------------------------------------------
(* Decoder runs: one comment, drawn from a bounded set, is decoded once *)

RECURSIVE SeqsUpTo(_, _)
SeqsUpTo(S, n) ==
    IF n = 0 THEN {<<>>}
    ELSE LET R == SeqsUpTo(S, n - 1)
         IN R \cup {Append(r, c) : r \in {x \in R : Len(x) = n - 1}, c \in S}

RECURSIVE Join(_)
Join(toks) ==
    IF toks = <<>> THEN <<>>
    ELSE IF Len(toks) = 1 THEN toks[1]
    ELSE toks[1] \o <<" ">> \o Join(Tail(toks))

\* the characters tried in the two flag positions
FlagChars == {HexDigits[i] : i \in 1..16} \cup {"a", "f", "+", "-", "Z", U2, U3}
AddrChars == {"0", "A"}

Marker == <<"i", "d">>

\* the id tokens tried: "id" alone, "id" and one character, and "id", two
\* characters and an address tail
IdTokens ==
    {Marker} \cup {Marker \o <<c>> : c \in FlagChars}
    \cup {Marker \o <<c1, c2>> \o a : c1 \in FlagChars, c2 \in FlagChars,
                                       a \in SeqsUpTo(AddrChars, MaxAddrLen)}

\* tokens in front of the id token (none starts with "id"), and what follows it
PreTokens == {<<>>, <<"x">>}
PostTokens == {<<>>, <<<<"c">>>>, <<<<"i", "d", "1", "C", "9">>>>}

\* "id3F00AB12", "no id token here" and "no token here"
ExtraComments ==
    { <<"i", "d", "3", "F", "0", "0", "A", "B", "1", "2">>,
      <<"n", "o", " ", "i", "d", " ", "t", "o", "k", "e", "n", " ", "h", "e", "r", "e">>,
      <<"n", "o", " ", "t", "o", "k", "e", "n", " ", "h", "e", "r", "e">> }

Comments ==
    {Join(pre \o <<id>> \o post) :
        pre \in SeqsUpTo(PreTokens, MaxPre), id \in IdTokens, post \in PostTokens}
    \cup {Join(pre) : pre \in SeqsUpTo(PreTokens, MaxPre) \ {<<>>}}
    \cup ExtraComments

SessionInit ==
    /\ state = "Connecting"
    /\ result = "none"
    /\ cause = "none"
    /\ sent = <<>>
    /\ hist = <<>>
    /\ dec = <<>>
    /\ class = <<>>
    /\ calls = <<>>
    /\ frag = FALSE
    /\ pending = <<>>
    /\ out = <<>>

TsInit ==
    /\ stamp = NoTs
    /\ rendered = NotRendered

InitDecode ==
    /\ comment \in Comments
    /\ decoded = NotRun
    /\ TsInit
    /\ SessionInit

Decode ==
    /\ decoded = NotRun
    /\ decoded' = parse_ogn_comment(comment)
    /\ UNCHANGED <<comment, tsVars, sesVars>>

NextDecode == Decode

SpecDecode == InitDecode /\ [][NextDecode]_vars

----------------------------------------------------------------------------
(* Timestamp runs: one Option<Timestamp>, drawn from a bounded set, is       *)
(* rendered once                                                             *)

\* the values tried in each field: the small ones, the ends of the calendar
\* ranges, and the three-digit values a u8 can hold
TsFields == (0..MaxTsField) \cup {31, 59, 99, 100, 255}

\* "", "09z" and "05/14:30"
RawStamps ==
    { <<>>, <<"0", "9", "z">>, <<"0", "5", "/", "1", "4", ":", "3", "0">> }

Stamps ==
    {Ts(tag, a, b, c, <<>>) : tag \in {"DDHHMM", "HHMMSS"},
                              a \in TsFields, b \in TsFields, c \in TsFields}
    \cup {Ts("Unsupported", 0, 0, 0, raw) : raw \in RawStamps}
    \cup {NoTs}

InitTs ==
    /\ comment = <<>>
    /\ decoded = NotRun
    /\ stamp \in Stamps
    /\ rendered = NotRendered
    /\ SessionInit

Render ==
    /\ rendered = NotRendered
    /\ rendered' = TimestampField(stamp)
    /\ UNCHANGED <<decVars, stamp, sesVars>>

NextTs == Render

SpecTs == InitTs /\ [][NextTs]_vars

----------------------------------------------------------------------------
(* Claims about the decoder, checked under SpecDecode *)

\* the first token of the comment that starts with "id" (<<>> when there is none)
HasIdToken == SkipWhileNotId(Split(comment)) # <<>>
IdToken == IF HasIdToken THEN Head(SkipWhileNotId(Split(comment))) ELSE <<>>

\* the ways of writing the hex digit of value v
HexForm(v) == {HexDigits[v + 1], HexLower[v + 1]}

\* the tables of the data model, indexed by the raw subfield
AircraftTable ==
    <<"Unknown", "Glider", "TowPlane", "Helicopter", "Skydiver", "DropPlane",
      "Hangglider", "Paraglider", "PoweredAircraft", "JetAircraft", "Unknown",
      "Balloon", "Airship", "Uav", "Static", "Unknown">>
AddressTable == <<"Random", "Icao", "Flarm", "Ogn">>

\* C1: for every flags byte b and address addr, a comment whose first
\* id-prefixed token is "id" + two-digit-hex(b) + addr decodes to Some record
\* (no failure, no panic) with stealth_mode = bit 7, no_tracking = bit 6,
\* aircraft_type = table entry of bits 5..2 (0xA and 0xF both Unknown) and
\* address_type = table entry of bits 1..0.
C1_FlagsDecoded ==
    LET tok == IdToken
    IN (decoded.tag # "NotRun" /\ Len(tok) >= 4) =>
        \A hi \in 0..15 : tok[3] \in HexForm(hi) =>
            \A lo \in 0..15 : tok[4] \in HexForm(lo) =>
                LET b == 16 * hi + lo
                IN /\ decoded.tag = "Some"
                   /\ decoded.stealth_mode = (b >= 128)
                   /\ decoded.no_tracking = ((b % 128) >= 64)
                   /\ decoded.aircraft_type = AircraftTable[((b \div 4) % 16) + 1]
                   /\ decoded.address_type = AddressTable[(b % 4) + 1]

\* C1 witness: "idBE0A" (0xBE: stealth, raw type 0xF, address type 2) was decoded
C1_Witness ==
    /\ IdToken = <<"i", "d", "B", "E", "0", "A">>
    /\ decoded.tag = "Some"
    /\ decoded.stealth_mode /\ ~decoded.no_tracking
    /\ decoded.aircraft_type = "Unknown"
    /\ decoded.address_type = "Flarm"

\* an id token is well formed when the marker is followed by two hex digits
WellFormedId(tok) == Len(tok) >= 4 /\ IsHexDigit(tok[3]) /\ IsHexDigit(tok[4])

\* C2: when the first id-prefixed token is not "id" followed by two hex
\* digits (too short, or two characters that are not both hex digits), the
\* decoder returns None and never aborts.
C2_MalformedIsNone ==
    (decoded.tag # "NotRun" /\ HasIdToken /\ ~WellFormedId(IdToken)) =>
        decoded.tag = "None"

----------------------------------------------------------------------------
(* Lines of the feed: the text of the line and what aprs_parser::parse      *)
(* returns for it (the parser is an external crate: its result is an input) *)

Parsed(kind, err, c, ts, lat, lon, from, to, via) ==
    [kind |-> kind, err |-> err, comment |-> c, timestamp |-> ts,
     latitude |-> lat, longitude |-> lon, from |-> from, to |-> to, via |-> via]

ParseErr(detail) == Parsed("Err", detail, <<>>, NoTs, 0, 0, <<>>, <<>>, <<>>)
ParseUnknown == Parsed("Unknown", <<>>, <<>>, NoTs, 0, 0, <<>>, <<>>, <<>>)
Position(c, ts) ==
    Parsed("Position", <<>>, c, ts, 47000000, 8000000, <<"O", "G", "N", "1">>,
           <<"A", "P", "R", "S">>, <<<<"q", "A", "S">>, <<"R", "X">>>>)

Line(raw, res) == [raw |-> raw, res |-> res]

\* "id3F123456 climb+1.2"
Comment3F ==
    <<"i", "d", "3", "F", "1", "2", "3", "4", "5", "6", " ",
      "c", "l", "i", "m", "b", "+", "1", ".", "2">>

Lines ==
    { Line(<<"#", "k">>, ParseUnknown),
      Line(<<"#">>, ParseErr(<<"e">>)),
      Line(<<"x">>, ParseErr(<<"b", "a", "d">>)),
      Line(<<"u">>, ParseUnknown),
      Line(<<"p", "0">>, Position(Comment3F, Ts("HHMMSS", 14, 45, 0, <<>>))),
      Line(<<"p", "1">>, Position(<<"i", "d", "1", "F", "1", "2", "3", "4", "5", "6">>,
                                  Ts("DDHHMM", 5, 14, 30, <<>>))),
      Line(<<"p", "2">>, Position(<<"i", "d", "3">>, NoTs)),
      Line(<<"p", "3">>, Position(<<"i", "d", "Z", "Z", "1", "2">>, NoTs)),
      Line(<<"p", "4">>, Position(<<"c", "+", "1">>, Ts("HHMMSS", 9, 1, 2, <<>>))),
      Line(<<"p", "5">>, Position(<<"i", "d", "+", "7", "A", "B">>, NoTs)),
      Line(<<"p", "6">>, Position(<<"x", " ", "i", "d", "9", "F", "0", "0">>,
                                  Ts("Unsupported", 0, 0, 0, <<"0", "9", "z">>))),
      Line(<<"p", "7">>, Position(<<"i", "d", "5", "C">>, NoTs)),
      Line(<<"p", "8">>, Position(<<"i", "d", "9", "F", "1", "2", "3", "4", "5", "6">>,
                                  Ts("DDHHMM", 5, 14, 30, <<>>))) }

IsServerComment(l) == StartsWith(l.raw, <<"#">>)
IsRejected(l) == ~IsServerComment(l) /\ l.res.kind = "Err"
IsUnknown(l) == ~IsServerComment(l) /\ l.res.kind = "Unknown"
IsPosition(l) == ~IsServerComment(l) /\ l.res.kind = "Position"

----------------------------------------------------------------------------
(* read_messages: what one pass of the loop does with line l, the n-th line *)

\* one line of console output, made for input line n (0: before the loop)
Event(n, kind, text) == [n |-> n, kind |-> kind, text |-> text]

\* what a pass does: the branch taken, the decoder's result, what println!
\* put on the console, what was given to the async writer, and how the pass
\* ends (flush: line 203 is reached; continue: it is skipped; panic)
Pass(cls, d, echo, writes, ctl) ==
    [class |-> cls, dec |-> d, echo |-> echo, writes |-> writes, ctl |-> ctl]

HandleCommentNoFlush(l, n) ==
    Pass("ServerComment", NotRun, <<>>, <<Event(n, "ServerComment", l.raw)>>, "continue")

HandleComment(l, n) ==
    Pass("ServerComment", NotRun, <<>>, <<Event(n, "ServerComment", l.raw)>>, "flush")

HandleErrFatal(l, n) ==
    Pass("ParseError", NotRun, <<>>, <<Event(n, "ParseError", <<"Err: ">> \o l.res.err)>>,
         "panic")

HandleErr(l, n) ==
    Pass("ParseError", NotRun, <<>>, <<Event(n, "ParseError", <<"Err: ">> \o l.res.err)>>,
         "flush")

\* the raw line is left out of the output
HandleUnknownNoRaw(l, n) ==
    Pass("UnknownData", NotRun, <<>>, <<Event(n, "UnknownData", <<"Unknown data: ">>)>>,
         "flush")

HandleUnknown(l, n) ==
    Pass("UnknownData", NotRun, <<>>,
         <<Event(n, "UnknownData", <<"Unknown data: ">> \o l.raw)>>, "flush")

DisplayText(pos, c) ==
    TimestampField(pos.timestamp) \o <<": ">> \o Fixed6(pos.latitude) \o <<"/">>
        \o Fixed6(pos.longitude) \o <<" (">> \o <<c.aircraft_type>> \o <<" ">>
        \o <<AddressTypeDisplay(c.address_type)>> \o <<" ">> \o c.address
        \o <<" from ">> \o pos.from \o <<" to ">> \o pos.to \o <<" via ">>
        \o DebugVec(pos.via)

HandlePosition(l, n) ==
    LET pos == l.res
        echo == <<Event(n, "CommentEcho", pos.comment)>>      \* println!, line 166
        c == parse_ogn_comment(pos.comment)
    IN IF c.tag = "Panic" THEN Pass("panic", c, echo, <<>>, "panic")
       ELSE IF c.tag = "None" THEN Pass("suppressed", c, echo, <<>>, "continue")
       ELSE IF c.aircraft_type # "Paraglider" THEN Pass("suppressed", c, echo, <<>>, "continue")
       ELSE Pass("DisplayLine", c, echo, <<Event(n, "DisplayLine", DisplayText(pos, c))>>,
                 "flush")

\* the functions a pass calls on the line: the beacon-line parser unless the
\* line starts with "#", the decoder on a position report's comment
Invoked(l) ==
    IF StartsWith(l.raw, <<"#">>) THEN {}
    ELSE IF l.res.kind = "Position" THEN {"aprs_parser::parse", "parse_ogn_comment"}
    ELSE {"aprs_parser::parse"}

\* the parser is run on every line and "#" is looked at afterwards
HandleParseFirst(l, n) ==
    IF l.res.kind = "Err" THEN HandleErr(l, n)
    ELSE IF StartsWith(l.raw, <<"#">>) THEN HandleComment(l, n)
    ELSE IF l.res.kind = "Unknown" THEN HandleUnknown(l, n)
    ELSE HandlePosition(l, n)

Handle(l, n) ==
    IF StartsWith(l.raw, <<"#">>) THEN HandleComment(l, n)
    ELSE IF l.res.kind = "Err" THEN HandleErr(l, n)
    ELSE IF l.res.kind = "Unknown" THEN HandleUnknown(l, n)
    ELSE HandlePosition(l, n)

----------------------------------------------------------------------------
(* main and read_messages as a state machine *)

HOST == <<"aprs.glidernet.org:14580">>
APP_NAME == "CARGO_PKG_NAME"
APP_VERSION == "CARGO_PKG_VERSION"

\* format!("user {} pass {} vers {} {} filter {}\r\n", ...), in pieces
auth_line ==
    <<"user ", "bolOGNese", " pass ", "-1", " vers ", APP_NAME, " ", APP_VERSION,
      " filter ", "r/47.217/8.804/30", "\r\n">>

Ended(why, res) ==
    /\ state' = "Closed"
    /\ cause' = why
    /\ result' = res

\* Async::<TcpStream>::connect(HOST) and peer_addr() succeed
Connect ==
    /\ state = "Connecting"
    /\ state' = "Authenticating"
    /\ out' = Append(out, Event(0, "Connected", <<"Connected to ">> \o HOST))
    /\ UNCHANGED <<decVars, tsVars, result, cause, sent, hist, dec, class, calls, frag, pending>>

\* connect(HOST).await? fails
ConnectFail ==
    /\ state = "Connecting"
    /\ Ended("connect", "Err")
    /\ UNCHANGED <<decVars, tsVars, sent, hist, dec, class, calls, frag, pending, out>>

\* stream.get_ref().peer_addr()? fails
PeerAddrFail ==
    /\ state = "Connecting"
    /\ Ended("peer_addr", "Err")
    /\ UNCHANGED <<decVars, tsVars, sent, hist, dec, class, calls, frag, pending, out>>

\* s.write(auth_line.as_bytes()): one write call, which accepts the first k
\* pieces of the buffer; the count it returns is dropped
Login ==
    /\ state = "Authenticating"
    /\ \E k \in 1..Len(auth_line) : sent' = Append(sent, SubSeq(auth_line, 1, k))
    /\ state' = "Streaming"
    /\ UNCHANGED <<decVars, tsVars, result, cause, hist, dec, class, calls, frag, pending, out>>

\* the write fails
LoginFail ==
    /\ state = "Authenticating"
    /\ Ended("write", "Err")
    /\ UNCHANGED <<decVars, tsVars, sent, hist, dec, class, calls, frag, pending, out>>

\* the loop body run on line l
PassOver(l) ==
    LET p == Handle(l, Len(hist) + 1)
    IN /\ hist' = Append(hist, l)
       /\ dec' = Append(dec, p.dec)
       /\ class' = Append(class, p.class)
       /\ calls' = Append(calls, Invoked(l))
       /\ out' = out \o p.echo \o (IF p.ctl = "flush" THEN pending \o p.writes ELSE <<>>)
       /\ pending' = IF p.ctl = "flush" THEN <<>> ELSE pending \o p.writes
       /\ state' = IF p.ctl = "panic" THEN "Aborted" ELSE "Streaming"
       /\ cause' = IF p.ctl = "panic" THEN "panic" ELSE cause
       /\ result' = IF p.ctl = "panic" THEN "panic" ELSE result

\* one pass of the loop over a line the stream delivered
ReadLine ==
    /\ state = "Streaming"
    /\ ~frag
    /\ Len(hist) < MaxLines
    /\ \E l \in Lines : PassOver(l)
    /\ UNCHANGED <<decVars, tsVars, sent, frag>>

\* the stream ends in the middle of a line: lines.next() yields what was
\* read of it, as a line like any other, and the loop body runs on it
ReadFragment ==
    /\ state = "Streaming"
    /\ ~frag
    /\ Len(hist) < MaxLines
    /\ \E l \in Lines : PassOver(l)
    /\ frag' = TRUE
    /\ UNCHANGED <<decVars, tsVars, sent>>

\* lines.next() yields Some(Err(e)): line? returns the error
ReadError ==
    /\ state = "Streaming"
    /\ ~frag
    /\ Ended("read", "Err")
    /\ UNCHANGED <<decVars, tsVars, sent, hist, dec, class, calls, frag, pending, out>>

ReadEofAsError ==
    /\ state = "Streaming"
    /\ Ended("eof", "Err")
    /\ UNCHANGED <<decVars, tsVars, sent, hist, dec, class, calls, frag, pending, out>>

\* lines.next() yields None: the loop ends and read_messages returns Ok(())
ReadEof ==
    /\ state = "Streaming"
    /\ Ended("eof", "Ok")
    /\ UNCHANGED <<decVars, tsVars, sent, hist, dec, class, calls, frag, pending, out>>

Init ==
    /\ comment = <<>>
    /\ decoded = NotRun
    /\ TsInit
    /\ SessionInit

Next ==
    \/ Connect
    \/ ConnectFail
    \/ PeerAddrFail
    \/ Login
    \/ LoginFail
    \/ ReadLine
    \/ ReadError
    \/ ReadEof

Spec == Init /\ [][Next]_vars

\* the error of the console write is dropped and the loop goes on
ReadLineOutFailIgnored ==
    /\ state = "Streaming"
    /\ ~frag
    /\ Len(hist) < MaxLines
    /\ \E l \in Lines :
        LET p == Handle(l, Len(hist) + 1)
        IN /\ p.ctl = "flush"
           /\ hist' = Append(hist, l)
           /\ dec' = Append(dec, p.dec)
           /\ class' = Append(class, p.class)
           /\ calls' = Append(calls, Invoked(l))
           /\ out' = out \o p.echo
    /\ pending' = <<>>
    /\ cause' = "output"
    /\ UNCHANGED <<decVars, tsVars, sent, frag, state, result>>

\* a pass of the loop in which a write_all to the console or the flush of
\* line 203 fails: the ? returns the error from read_messages, and main
\* returns it; what the pass wrote may or may not have reached the console
ReadLineOutFail ==
    /\ state = "Streaming"
    /\ ~frag
    /\ Len(hist) < MaxLines
    /\ \E l \in Lines :
        LET p == Handle(l, Len(hist) + 1)
        IN /\ p.ctl = "flush"
           /\ hist' = Append(hist, l)
           /\ dec' = Append(dec, p.dec)
           /\ class' = Append(class, p.class)
           /\ calls' = Append(calls, Invoked(l))
           /\ out' \in {out \o p.echo, out \o p.echo \o pending \o p.writes}
    /\ pending' = <<>>
    /\ Ended("output", "Err")
    /\ UNCHANGED <<decVars, tsVars, sent, frag>>

\* a pass of the loop over a position report in which println! (line 166)
\* cannot write to the console: println! panics
ReadLineEchoFail ==
    /\ state = "Streaming"
    /\ ~frag
    /\ Len(hist) < MaxLines
    /\ \E l \in Lines :
        /\ Invoked(l) = {"aprs_parser::parse", "parse_ogn_comment"}
        /\ hist' = Append(hist, l)
        /\ calls' = Append(calls, {"aprs_parser::parse"})
    /\ dec' = Append(dec, NotRun)
    /\ class' = Append(class, "panic")
    /\ state' = "Aborted"
    /\ cause' = "panic"
    /\ result' = "panic"
    /\ UNCHANGED <<decVars, tsVars, sent, frag, pending, out>>

\* the session with a console that may fail
NextOut == Next \/ ReadLineOutFail \/ ReadLineEchoFail

SpecOut == Init /\ [][NextOut]_vars

\* the session on a stream that may end in the middle of a line
NextFrag == Next \/ ReadFragment

SpecFrag == Init /\ [][NextFrag]_vars

----------------------------------------------------------------------------
(* Claims about the session, checked under Spec *)

\* what reached the console for input line n
EventsOf(n) == SelectSeq(out, LAMBDA e : e.n = n)

Last == hist[Len(hist)]

\* C3: decoding never aborts the session: after a position report has been
\* handled, whatever its comment, the loop is still in Streaming; only a
\* transport error (or the end of the stream) ends the session.
C3_DecodeNeverAborts ==
    (hist # <<>> /\ IsPosition(Last) /\ cause \notin {"read", "eof"}) =>
        state = "Streaming"

\* C4: for a position report, output is produced if and only if the decode
\* returns Some with aircraft_type Paraglider, and then it is exactly one
\* DisplayLine; otherwise nothing at all is emitted for the line.
C4_OutputIffParaglider ==
    \A n \in 1..Len(hist) :
        (IsPosition(hist[n]) /\ dec[n].tag \in {"Some", "None"}) =>
            IF dec[n].tag = "Some" /\ dec[n].aircraft_type = "Paraglider"
            THEN Len(EventsOf(n)) = 1 /\ EventsOf(n)[1].kind = "DisplayLine"
            ELSE EventsOf(n) = <<>>

Is3F(l) == IsPosition(l) /\ l.res.comment = Comment3F
Addr123456 == <<"1", "2", "3", "4", "5", "6">>

\* C5 as stated: a position report with comment "id3F123456 climb+1.2" makes
\* the session emit exactly one DisplayLine, with aircraft_type Paraglider,
\* address "123456" and address_type Ogn.
C5_Original ==
    \A n \in 1..Len(hist) :
        Is3F(hist[n]) =>
            /\ Len(SelectSeq(EventsOf(n), LAMBDA e : e.kind = "DisplayLine")) = 1
            /\ dec[n].aircraft_type = "Paraglider"
            /\ dec[n].address = Addr123456
            /\ dec[n].address_type = "Ogn"

\* C5 amended: a position report with comment "id3F123456 climb+1.2" decodes
\* to aircraft_type Unknown (bits 5..2 of 0x3F are 0xF), address "123456",
\* address_type Ogn, and the session emits no DisplayLine for it.
C5_3FIsUnknown ==
    \A n \in 1..Len(hist) :
        Is3F(hist[n]) =>
            /\ dec[n].tag = "Some"
            /\ dec[n].aircraft_type = "Unknown"
            /\ dec[n].address = Addr123456
            /\ dec[n].address_type = "Ogn"
            /\ class[n] = "suppressed"
            /\ SelectSeq(EventsOf(n), LAMBDA e : e.kind = "DisplayLine") = <<>>

\* C5 witness: the report was read and handled, and the loop goes on
C5_Witness == hist # <<>> /\ Is3F(Last) /\ state = "Streaming"

Emitting == {"ServerComment", "ParseError", "UnknownData", "DisplayLine"}

C7_OneClassOneOutput ==
    \A n \in 1..Len(hist) :
        /\ class[n] \in Emitting \cup {"suppressed"}
        /\ Len(EventsOf(n)) <= 1

\* C8: exactly one write is made to the feed, it delivers the complete
\* authentication line ending in CR LF, and it is made before the first line
\* is read.
C8_OneCompleteAuthWrite ==
    /\ (state = "Streaming" \/ hist # <<>>) => sent = <<auth_line>>
    /\ Len(sent) <= 1

\* C9 as stated: every way the session closes (connect failure, failure of
\* the authentication write, read failure, end of stream) makes the top-level
\* call return a failure.
C9_Original == state = "Closed" => result = "Err"

\* C9 amended: a connect failure, a failure of the authentication write and a
\* read failure each close the session with a failure returned; the end of the
\* stream closes it with success returned; once Closed, nothing is read,
\* written or emitted any more.
C9_TransportFatal ==
    /\ [](/\ cause \in {"connect", "peer_addr", "write", "read"} =>
                (state = "Closed" /\ result = "Err")
          /\ cause = "eof" => (state = "Closed" /\ result = "Ok")
          /\ state = "Closed" => cause \in {"connect", "peer_addr", "write", "read", "eof"})
    /\ [][state = "Closed" => UNCHANGED vars]_vars

\* C9 witness: the stream ended after a line had been read
C9_Witness == state = "Closed" /\ cause = "eof" /\ hist # <<>>

\* C10: a line the beacon-line parser rejects produces exactly one ParseError
\* output and is not fatal: the loop stays in Streaming and the next line is
\* read.
C10_RejectedLineNonFatal ==
    /\ [][(Len(hist') = Len(hist) + 1 /\ IsRejected(hist'[Len(hist')])) =>
            /\ state' = "Streaming"
            /\ pending' = <<>>
            /\ Len(out') = Len(out) + 1
            /\ SubSeq(out', 1, Len(out)) = out
            /\ out'[Len(out')].kind = "ParseError"
            /\ out'[Len(out')].n = Len(hist')]_vars
    /\ []((hist # <<>> /\ IsRejected(Last) /\ cause = "none" /\ Len(hist) < MaxLines) =>
            ENABLED ReadLine)

\* C10 witness: a rejected line gave one ParseError, and the line after it was
\* read and displayed
C10_Witness ==
    /\ Len(hist) = 2
    /\ IsRejected(hist[1])
    /\ Len(EventsOf(1)) = 1 /\ EventsOf(1)[1].kind = "ParseError"
    /\ class[2] = "DisplayLine"
    /\ state = "Streaming"

\* C11: a line that starts with "#" produces exactly one ServerComment whose
\* text is the line verbatim, and neither the beacon-line parser nor
\* parse_ogn_comment is called for it; a line that does not start with "#" is
\* always handed to the beacon-line parser.
C11_HashIsServerComment ==
    \A n \in 1..Len(hist) :
        IF hist[n].raw # <<>> /\ hist[n].raw[1] = "#"
        THEN /\ class[n] = "ServerComment"
             /\ Len(EventsOf(n)) = 1
             /\ EventsOf(n)[1].kind = "ServerComment"
             /\ EventsOf(n)[1].text = hist[n].raw
             /\ calls[n] = {}
             /\ dec[n].tag = "NotRun"
        ELSE /\ "aprs_parser::parse" \in calls[n]
             /\ class[n] # "ServerComment"

\* C11 witness: a "#" line the parser would have rejected was read, then a
\* line that went to the parser
C11_Witness ==
    /\ Len(hist) = 2
    /\ hist[1].raw = <<"#">> /\ hist[1].res.kind = "Err"
    /\ class[1] = "ServerComment"
    /\ class[2] = "UnknownData"

----------------------------------------------------------------------------
(* More claims about the decoder, checked under SpecDecode *)

\* where the tokens of the comment start when it is cut at every single space,
\* and where those that begin with "id" start
TokenStarts == {i \in 1..Len(comment) : i = 1 \/ comment[i - 1] = " "}
IdStarts ==
    {i \in TokenStarts : i < Len(comment) /\ comment[i] = "i" /\ comment[i + 1] = "d"}
FirstIdStart == CHOOSE i \in IdStarts : \A j \in IdStarts : i <= j

\* the token that starts at i: up to the next space or the end
TokenAt(i) ==
    LET stops == {j \in i..Len(comment) : comment[j] = " "}
        e == IF stops = {} THEN Len(comment)
             ELSE (CHOOSE j \in stops : \A k \in stops : j <= k) - 1
    IN SubSeq(comment, i, e)

\* C12: the comment is split on single spaces and the result is that of the
\* first token starting with "id" alone: tokens before and after it change
\* nothing, a later well-formed id token is not consulted, and a comment with
\* no id-prefixed token gives None.
C12_FirstIdTokenDecides ==
    decoded.tag # "NotRun" =>
        IF IdStarts = {} THEN decoded.tag = "None"
        ELSE decoded = parse_ogn_comment(TokenAt(FirstIdStart))

\* C12 witness: "idZZ id1C9" gave None, the later id token was not consulted
C12_Witness ==
    /\ comment = <<"i", "d", "Z", "Z", " ", "i", "d", "1", "C", "9">>
    /\ decoded.tag = "None"

\* C13: on a successful decode the address is, character for character, what
\* follows the marker and the two flag characters in the id token: leading
\* zeros are kept, and nothing after the flags gives the empty address.
C13_AddressVerbatim ==
    decoded.tag = "Some" =>
        LET tok == TokenAt(FirstIdStart)
        IN decoded.address = SubSeq(tok, 5, Len(tok))

\* C13 witness: "id3F00AB12" gave the address "00AB12"
C13_Witness ==
    /\ comment = <<"i", "d", "3", "F", "0", "0", "A", "B", "1", "2">>
    /\ decoded.tag = "Some"
    /\ decoded.address = <<"0", "0", "A", "B", "1", "2">>

----------------------------------------------------------------------------
(* Claims about the timestamp rendering, checked under SpecTs *)

TwoDigits(n) == <<HexDigits[(n \div 10) + 1], HexDigits[(n % 10) + 1]>>

\* the rendered string cut at "/" and ":"
RECURSIVE CutAtSeparators(_)
CutAtSeparators(s) ==
    LET seps == {i \in 1..Len(s) : s[i] \in {"/", ":"}}
    IN IF seps = {} THEN <<s>>
       ELSE LET k == CHOOSE i \in seps : \A j \in seps : i <= j
            IN <<SubSeq(s, 1, k - 1)>> \o CutAtSeparators(SubSeq(s, k + 1, Len(s)))

RECURSIVE Number(_)
Number(d) == IF d = <<>> THEN 0 ELSE 10 * Number(SubSeq(d, 1, Len(d) - 1)) + DigitVal(d[Len(d)])

\* the timestamp read back from the rendered string
ReadBack ==
    LET f == CutAtSeparators(rendered)
    IN IF f[1] = <<"T", "o", "d", "a", "y">>
       THEN Ts("HHMMSS", Number(f[2]), Number(f[3]), Number(f[4]), <<>>)
       ELSE Ts("DDHHMM", Number(f[1]), Number(f[2]), Number(f[3]), <<>>)

\* C14: DayHourMinute(d,h,m) renders as "DD/HH:MM" and HourMinuteSecond(h,m,s)
\* as "Today/HH:MM:SS", each field zero-padded to two digits; UnsupportedRaw(s)
\* renders as s; an absent timestamp renders as "?"; the two variants never
\* render to the same string: variant and fields can be read back.
C14_TimestampCanonical ==
    rendered # NotRendered =>
        /\ stamp.tag = "None" => rendered = <<"?">>
        /\ stamp.tag = "Unsupported" => rendered = stamp.raw
        /\ (stamp.tag = "DDHHMM" /\ stamp.a < 100 /\ stamp.b < 100 /\ stamp.c < 100) =>
              rendered = TwoDigits(stamp.a) \o <<"/">> \o TwoDigits(stamp.b) \o <<":">>
                            \o TwoDigits(stamp.c)
        /\ (stamp.tag = "HHMMSS" /\ stamp.a < 100 /\ stamp.b < 100 /\ stamp.c < 100) =>
              rendered = <<"T", "o", "d", "a", "y", "/">> \o TwoDigits(stamp.a) \o <<":">>
                            \o TwoDigits(stamp.b) \o <<":">> \o TwoDigits(stamp.c)
        /\ stamp.tag \in {"DDHHMM", "HHMMSS"} => ReadBack = stamp

\* C14 witness: HourMinuteSecond(9, 1, 2) was rendered as "Today/09:01:02"
C14_Witness ==
    /\ stamp = Ts("HHMMSS", 9, 1, 2, <<>>)
    /\ rendered = <<"T", "o", "d", "a", "y", "/", "0", "9", ":", "0", "1", ":", "0", "2">>

----------------------------------------------------------------------------
(* More claims about the session, checked under Spec *)

\* sub occurs in s as a contiguous run
Contains(s, sub) ==
    \E i \in 0..(Len(s) - Len(sub)) : SubSeq(s, i + 1, i + Len(sub)) = sub

----------------------------------------------------------------------------
(* Claim about a stream that ends inside a line, checked under SpecFrag *)

\* C16: nothing is emitted for a line before the complete, newline-terminated
\* line has been read and fully classified: a stream that ends in the middle
\* of a line produces no event for the unterminated fragment, and a line whose
\* classification did not complete has no output.
C16_NoPartialOutput ==
    /\ frag => EventsOf(Len(hist)) = <<>>
    /\ \A n \in 1..Len(hist) : class[n] = "panic" => EventsOf(n) = <<>>

----------------------------------------------------------------------------
(* Claim about the stealth and no-tracking bits, checked under Spec *)

\* two position reports that are the same but for bits 7 and 6 of the flags
\* byte: the comments differ at most in the first flag digit, and that digit
\* at most in its two high bits
DifferOnlyInBits76(l1, l2) ==
    LET c1 == l1.res.comment
        c2 == l2.res.comment
    IN /\ IsPosition(l1) /\ IsPosition(l2)
       /\ [l1.res EXCEPT !.comment = <<>>] = [l2.res EXCEPT !.comment = <<>>]
       /\ Len(c1) = Len(c2) /\ Len(c1) >= 4
       /\ StartsWith(c1, <<"i", "d">>)
       /\ \A i \in 1..Len(c1) : i # 3 => c1[i] = c2[i]
       /\ IsHexDigit(c1[3]) /\ IsHexDigit(c2[3]) /\ IsHexDigit(c1[4])
       /\ DigitVal(c1[3]) % 4 = DigitVal(c2[3]) % 4

\* what was put on the console for line n, without the line number
ShownFor(n) == [i \in 1..Len(EventsOf(n)) |->
                   [kind |-> EventsOf(n)[i].kind, text |-> EventsOf(n)[i].text]]

\* C17: the stealth_mode and no_tracking bits are never consulted: for two
\* position reports that differ only in bits 7 and 6 of the flags byte the
\* session emits the same output.
C17_StealthBitsIgnored ==
    \A n \in 1..Len(hist) : \A m \in 1..Len(hist) :
        DifferOnlyInBits76(hist[n], hist[m]) => ShownFor(n) = ShownFor(m)

----------------------------------------------------------------------------
(* Claim about a failing console, checked under SpecOut *)

\* C18: a failure on the output side is fatal like a transport failure: when
\* writing or flushing a ServerComment, ParseError, UnknownData or DisplayLine
\* output fails, read_messages returns the error at once, no further line is
\* read, and main returns the error.
C18_OutputFailureFatal ==
    /\ [](cause = "output" =>
            /\ state = "Closed"
            /\ result = "Err"
            /\ class[Len(hist)] \in Emitting)
    /\ [][cause = "output" => UNCHANGED vars]_vars
    /\ [][(cause # "output" /\ cause' = "output") =>
            (state = "Streaming" /\ Len(hist') = Len(hist) + 1)]_vars

\* C18 witness: the write of a DisplayLine failed on the second line
C18_Witness ==
    /\ cause = "output"
    /\ state = "Closed"
    /\ Len(hist) = 2
    /\ class[2] = "DisplayLine"
    /\ Len(SelectSeq(EventsOf(2), LAMBDA e : e.kind = "DisplayLine")) = 0

====
